---- MODULE Spec2Model ----
(***************************************************************************)
(* Visibility lifecycle of the Skeleton component of skeleton-rs, in its   *)
(* two bindings (src/src/yew.rs and src/src/dioxus.rs).                    *)
(*                                                                         *)
(* One instance is followed from its first render to after its unmount.    *)
(* The browser is the environment: it advances the clock, runs the         *)
(* callbacks of the timeouts that are due, and delivers intersection       *)
(* entries to the observers that were created.  Both kinds of callback are *)
(* leaked by the component (Timeout::forget, Closure::forget), so they     *)
(* stay deliverable for as long as the page lives.                         *)
(*                                                                         *)
(* Spec / FairSpec follow the visibility hooks of that instance.  DocSpec  *)
(* follows the shared style block, ViewSpec the render pass (style string, *)
(* class list, output), PageSpec several instances of one binding on one   *)
(* page, and TwinSpec a Yew and a Dioxus instance given the same props.    *)
(***************************************************************************)
EXTENDS Naturals, Integers, FiniteSets, Sequences, Bags, TLC

\* delay_ms of the delayed example (Example10).
DelayMs == 1000

\* The clock is sampled around the multiples of DelayMs, up to MaxPeriods of them.
MaxPeriods == 1
\* Timeouts that may be pending at once.
MaxTimers == 2
\* IntersectionObservers that may have been created.
MaxObservers == 1

Bindings == {"yew", "dioxus"}

DelaySet == {0, DelayMs}

\* The fields of SkeletonProps that the visibility hooks read.
Props == [show : BOOLEAN, delay_ms : DelaySet, animate_on_visible : BOOLEAN]

\* The instants the clock is observed at: k*DelayMs - 1, k*DelayMs, k*DelayMs + 1.
Instants == {t \in 0 .. (MaxPeriods * DelayMs + 1) :
               \E k \in 0 .. MaxPeriods : t + 1 = k * DelayMs \/ t = k * DelayMs \/ t = k * DelayMs + 1}

\* The deadlines a Timeout can have.
Deadlines == {t + d : t \in Instants, d \in DelaySet}

VARIABLES
  binding,    \* which binding the instance belongs to
  props,      \* the props of the latest render
  visible,    \* use_state / use_signal `visible`
  pc,         \* "rendered": first render done, effects queued; "idle"; "unmounted"
  timers,     \* bag of the deadlines of the forgotten Timeouts
  observers,  \* number of IntersectionObservers created (none is ever disconnected)
  now,        \* the clock, in ms since the first render
  panicked,   \* a callback panicked (wasm trap thrown into the event loop)
  updated,    \* history: the host has supplied props again since the mount
  show_seen,  \* history: some props so far, the mount's included, had show = true
  last,       \* history: the last step taken and `visible` before it
  io_supported, \* the browser can construct an IntersectionObserver
  \* The document and its shared style block (the injector effect).
  doc_env,    \* "ok", "no_head" (document.head() is None) or "no_window"
  style_blocks, \* the contents of the elements with id "skeleton-rs-style" in the document
  mounts,     \* instances mounted so far, each running the injector effect once
  live,       \* the instances mounted and not unmounted: their binding and direction
  first_css,  \* history: <<css>> of the first instance to mount, <<>> before it
  appended,   \* history: how many times a style element was appended to the head
  \* The render pass (style, class list, output).
  cfg,        \* the style props of the render
  out,        \* the output of the latest render
  style,      \* the `style` String the latest render built
  renders,    \* history: the latest render and, if it had the same props, the one before
  edits,      \* props changed from their defaults so far
  \* Several instances at once.
  insts,      \* the instances of one page: mounted, props, visible
  watch,      \* the IntersectionObservers of the page: whose closure, on whose node
  twin        \* a Yew and a Dioxus instance given the same props and events

docVars == <<doc_env, style_blocks, mounts, live, first_css, appended>>

viewVars == <<cfg, out, style, renders, edits>>

groupVars == <<insts, watch, twin>>

vars == <<binding, props, visible, pc, timers, observers, now, panicked, updated, show_seen,
          last, io_supported, docVars, viewVars, groupVars>>

----------------------------------------------------------------------------
(* The hooks, as functions of what they read.                              *)

\* Variant: the negation of show is dropped.
InitialVisible_NotNegated(p) == p.show

\* use_state(|| !props.show) / use_signal(|| !props.show)
InitialVisible(p) == ~p.show

\* Variant: the delay test is >= instead of >.
ShowEffectBranch_DelayGeq(p) ==
  IF p.show THEN "hide"
  ELSE IF p.delay_ms >= 0 THEN "timer"
  ELSE "show"

\* The branch the show effect takes.
ShowEffectBranch(p) ==
  IF p.show THEN "hide"
  ELSE IF p.delay_ms > 0 THEN "timer"
  ELSE "show"

\* Variant: the timer branch hides the placeholder while the delay runs.
ShowEffectVisible_HideWhileWaiting(p, v) ==
  CASE ShowEffectBranch(p) = "hide"  -> FALSE
    [] ShowEffectBranch(p) = "timer" -> FALSE
    [] ShowEffectBranch(p) = "show"  -> TRUE

\* `visible` after the show effect ran: set(false), untouched (the Timeout is
\* only scheduled), or set(true).
ShowEffectVisible(p, v) ==
  CASE ShowEffectBranch(p) = "hide"  -> FALSE
    [] ShowEffectBranch(p) = "timer" -> v
    [] ShowEffectBranch(p) = "show"  -> TRUE

\* The pending timeouts after the show effect ran at time t:
\* Timeout::new(delay_ms, ..).forget() adds one due at t + delay_ms.
ShowEffectTimers(p, ts, t) ==
  IF ShowEffectBranch(p) = "timer" THEN ts (+) SetToBag({t + p.delay_ms}) ELSE ts

\* Variant: the closure writes false.
TimeoutCallback_SetsFalse(v) == FALSE

\* The value the Timeout's closure writes: visible.set(true).
TimeoutCallback(v) == TRUE

\* Variant: the closure never writes.
IntersectionCallback_Ignores(v, is_intersecting) == v

\* Variant: the closure writes the entry's flag whatever it is.
IntersectionCallback_Follows(v, is_intersecting) == is_intersecting

\* The IntersectionObserver closure on one entry: set(true) if it intersects.
IntersectionCallback(v, is_intersecting) == IF is_intersecting THEN TRUE ELSE v

\* Whether a re-render with new props runs the show effect again.  Yew:
\* use_effect_with((props.show,), ..) compares the dependency.  Dioxus:
\* use_effect keeps the closure of the first render and reruns only for the
\* signals it read; it reads none.
ShowEffectReruns(b, old, new) == b = "yew" /\ old.show # new.show

\* Whether a re-render runs the observer effect again.  Yew: dependencies
\* (node_ref, animate_on_visible), the NodeRef being the same handle in every
\* render.  Dioxus: as for the show effect.
ObserverEffectReruns(b, old, new) ==
  b = "yew" /\ old.animate_on_visible # new.animate_on_visible

\* The observer effect creates an observer when animate_on_visible is set and
\* the placeholder node is found (node_ref.cast / get_element_by_id).
ObserverAttaches(p, node_present) == p.animate_on_visible /\ node_present

\* IntersectionObserver::new(..).unwrap(): the observer exists when the
\* effect got as far as constructing it and the constructor returned Ok.
ObserverCreated(attach, supported) == attach /\ supported

\* The unwrap panics on the Err of a browser that has no IntersectionObserver.
ObserverUnwrapPanics(attach, supported) == attach /\ ~supported

\* What the effects' destructors leave of the pending timeouts and of the
\* observers at unmount: the Yew destructor is `|| ()`, Dioxus has none.
CleanupTimers(ts) == ts
CleanupObservers(n) == n

\* A write to `visible` by a leaked callback after the unmount.  Yew: the
\* UseStateHandle keeps the state cell alive and the write lands in it.
\* Dioxus: the signal was dropped with its scope and Signal::set panics.
DeadWriteVisible(b, v, new) == IF b = "yew" THEN new ELSE v
DeadWritePanics(b) == b = "dioxus"

\* The component's output.
Render(v) == IF v THEN "placeholder" ELSE "children"

----------------------------------------------------------------------------
(* The render pass: style string, class list, output.                      *)
(* A string the code builds with format! and push_str is the sequence of   *)
(* the pieces pushed, in order; its text is their concatenation.           *)

Variants == {"Text", "Circular", "Rectangular", "Rounded", "Image", "Avatar", "Button"}

Animations == {"Pulse", "Wave", "None"}

\* Direction; deg is the payload of CustomAngle(i64) and 0 otherwise.
Directions ==
  {[kind |-> k, deg |-> 0] : k \in {"LeftToRight", "RightToLeft", "TopToBottom", "BottomToTop"}}
  \cup {[kind |-> "CustomAngle", deg |-> d] : d \in {-45, 135}}

\* Theme; color is the payload of Custom(&str) and "" otherwise.
Themes ==
  {[kind |-> k, color |-> ""] : k \in {"Light", "Dark"}}
  \cup {[kind |-> "Custom", color |-> c] : c \in {"#0099ff", "red"}}

\* Option<&'static str>
None == << >>
Some(x) == <<x>>

\* The props' defaults (prop_or / props(default)).
DefaultCfg ==
  [children |-> << >>,
   variant |-> "Text", animation |-> "Pulse",
   direction |-> [kind |-> "LeftToRight", deg |-> 0],
   theme |-> [kind |-> "Light", color |-> ""],
   width |-> "100%", height |-> "1em", font_size |-> None,
   border_radius |-> "4px", display |-> "inline-block", line_height |-> "1",
   position |-> "relative", overflow |-> "hidden", margin |-> "",
   custom_style |-> "", infer_size |-> FALSE,
   max_width |-> None, min_width |-> None, max_height |-> None, min_height |-> None,
   animate_on_hover |-> FALSE, animate_on_focus |-> FALSE, animate_on_active |-> FALSE]

\* The values each prop is drawn from.
CfgValues ==
  [children |-> {<< >>, <<"content">>},
   variant |-> Variants, animation |-> Animations,
   direction |-> Directions, theme |-> Themes,
   width |-> {"100%", "300px"}, height |-> {"1em", "200px"},
   font_size |-> {None, Some("16px")},
   border_radius |-> {"4px", "12px"}, display |-> {"inline-block", "block"},
   line_height |-> {"1", "1.5"}, position |-> {"relative", "absolute"},
   overflow |-> {"hidden", "visible"}, margin |-> {"", "8px"},
   custom_style |-> {"", "opacity: 0.5; border-radius: 1px;"},
   infer_size |-> BOOLEAN,
   max_width |-> {None, Some("600px")}, min_width |-> {None, Some("50px")},
   max_height |-> {None, Some("400px")}, min_height |-> {None, Some("10px")},
   animate_on_hover |-> BOOLEAN, animate_on_focus |-> BOOLEAN,
   animate_on_active |-> BOOLEAN]

\* Variant: Dark resolves to the Light colour.
BackgroundColor_DarkAsLight(theme) ==
  CASE theme.kind = "Light"  -> "#e0e0e0"
    [] theme.kind = "Dark"   -> "#e0e0e0"
    [] theme.kind = "Custom" -> theme.color

\* let background_color = match props.theme
BackgroundColor(theme) ==
  CASE theme.kind = "Light"  -> "#e0e0e0"
    [] theme.kind = "Dark"   -> "#444444"
    [] theme.kind = "Custom" -> theme.color

\* Variant: Avatar falls through to the configured radius.
EffectiveRadius_AvatarConfigured(variant, border_radius) ==
  CASE variant = "Circular"             -> "50%"
    [] variant = "Rectangular"          -> "0"
    [] variant = "Rounded"              -> "8px"
    [] variant = "Button"               -> "6px"
    [] variant \in {"Text", "Image", "Avatar"} -> border_radius

\* let effective_radius = match props.variant
EffectiveRadius(variant, border_radius) ==
  CASE variant \in {"Circular", "Avatar"} -> "50%"
    [] variant = "Rectangular"          -> "0"
    [] variant = "Rounded"              -> "8px"
    [] variant = "Button"               -> "6px"
    [] variant \in {"Text", "Image"}    -> border_radius

\* Variant: RightToLeft takes the angle of LeftToRight.
WaveAngle_RightAsLeft(direction) ==
  CASE direction.kind = "LeftToRight" -> 90
    [] direction.kind = "RightToLeft" -> 90
    [] direction.kind = "TopToBottom" -> 180
    [] direction.kind = "BottomToTop" -> 0
    [] direction.kind = "CustomAngle" -> direction.deg

\* Dioxus: let angle = match props.direction
WaveAngle(direction) ==
  CASE direction.kind = "LeftToRight" -> 90
    [] direction.kind = "RightToLeft" -> 270
    [] direction.kind = "TopToBottom" -> 180
    [] direction.kind = "BottomToTop" -> 0
    [] direction.kind = "CustomAngle" -> direction.deg

\* base_animation (Yew, a fixed 90deg gradient) / animation_style (Dioxus,
\* whose format! literal runs over three source lines).
AnimationStyle(b, c) ==
  CASE c.animation = "Pulse" ->
         <<"animation", ": ", "skeleton-rs-pulse 1.5s ease-in-out infinite", ";">>
    [] c.animation = "Wave" /\ b = "yew" ->
         <<"background", ": ", "linear-gradient(", "90",
           "deg, #e0e0e0 25%, #f5f5f5 50%, #e0e0e0 75%)", "; ",
           "background-size", ": ", "200% 100%", "; ",
           "animation", ": ", "skeleton-rs-wave 1.6s linear infinite", ";">>
    [] c.animation = "Wave" /\ b = "dioxus" ->
         <<"background", ": ", "linear-gradient(", ToString(WaveAngle(c.direction)),
           "deg, #e0e0e0 25%, #f5f5f5 50%, #e0e0e0 75%)", ";\n                 ",
           "background-size", ": ", "200% 100%", ";\n                 ",
           "animation", ": ", "skeleton-rs-wave 1.6s linear infinite", ";">>
    [] c.animation = "None" -> << >>

\* Variant: line-height is declared in both branches.
BaseStyle_AlwaysLineHeight(c) ==
  LET common == <<"background-color", ": ", BackgroundColor(c.theme), "; ",
                  "border-radius", ": ", EffectiveRadius(c.variant, c.border_radius), "; ",
                  "display", ": ", c.display, "; ",
                  "position", ": ", c.position, "; ",
                  "overflow", ": ", c.overflow, "; ",
                  "margin", ": ", c.margin>>
  IN IF c.infer_size
       THEN common \o <<"; ", "line-height", ": ", c.line_height, ";">>
       ELSE <<"width", ": ", c.width, "; ", "height", ": ", c.height, "; ">>
            \o common \o <<"; ", "line-height", ": ", c.line_height, ";">>

\* The first push_str: the base box, without or with the size declarations.
BaseStyle(c) ==
  LET common == <<"background-color", ": ", BackgroundColor(c.theme), "; ",
                  "border-radius", ": ", EffectiveRadius(c.variant, c.border_radius), "; ",
                  "display", ": ", c.display, "; ",
                  "position", ": ", c.position, "; ",
                  "overflow", ": ", c.overflow, "; ",
                  "margin", ": ", c.margin>>
  IN IF c.infer_size
       THEN common \o <<";">>
       ELSE <<"width", ": ", c.width, "; ", "height", ": ", c.height, "; ">>
            \o common \o <<"; ", "line-height", ": ", c.line_height, ";">>

\* if let Some(x) = props.<name> { push_str(" <name>: {x};") }
OptionalDecl(name, opt) ==
  IF opt = None THEN << >> ELSE <<" ", name, ": ", opt[1], ";">>

\* Variant: custom_style is pushed before the animation declarations.
Style_CustomBeforeAnimation(b, c) ==
  BaseStyle(c)
  \o OptionalDecl("font-size", c.font_size)
  \o OptionalDecl("max-width", c.max_width)
  \o OptionalDecl("min-width", c.min_width)
  \o OptionalDecl("max-height", c.max_height)
  \o OptionalDecl("min-height", c.min_height)
  \o (IF c.custom_style = "" THEN << >> ELSE <<c.custom_style>>)
  \o AnimationStyle(b, c)

\* Variant: min-width is pushed before max-width.
Style_MinBeforeMax(b, c) ==
  BaseStyle(c)
  \o OptionalDecl("font-size", c.font_size)
  \o OptionalDecl("min-width", c.min_width)
  \o OptionalDecl("max-width", c.max_width)
  \o OptionalDecl("max-height", c.max_height)
  \o OptionalDecl("min-height", c.min_height)
  \o AnimationStyle(b, c)
  \o (IF c.custom_style = "" THEN << >> ELSE <<c.custom_style>>)

\* The style string.
Style(b, c) ==
  BaseStyle(c)
  \o OptionalDecl("font-size", c.font_size)
  \o OptionalDecl("max-width", c.max_width)
  \o OptionalDecl("min-width", c.min_width)
  \o OptionalDecl("max-height", c.max_height)
  \o OptionalDecl("min-height", c.min_height)
  \o AnimationStyle(b, c)
  \o (IF c.custom_style = "" THEN << >> ELSE <<c.custom_style>>)

\* Variant: skeleton-active is pushed whatever animate_on_active is.
ClassNames_AlwaysActive(c) ==
  <<"skeleton-rs">>
  \o (IF c.animate_on_hover THEN <<" skeleton-hover">> ELSE << >>)
  \o (IF c.animate_on_focus THEN <<" skeleton-focus">> ELSE << >>)
  \o <<" skeleton-active">>

\* class_names
ClassNames(c) ==
  <<"skeleton-rs">>
  \o (IF c.animate_on_hover THEN <<" skeleton-hover">> ELSE << >>)
  \o (IF c.animate_on_focus THEN <<" skeleton-focus">> ELSE << >>)
  \o (IF c.animate_on_active THEN <<" skeleton-active">> ELSE << >>)

\* The value of the first declaration of `name` in a style string.
DeclValue(st, name) ==
  LET I == {i \in 1 .. Len(st) - 2 : st[i] = name /\ st[i + 1] = ": "}
  IN IF I = {} THEN None
     ELSE Some(st[(CHOOSE i \in I : \A j \in I : i <= j) + 2])

\* What an output holds when the other kind of output was produced.
NoNode == [tag |-> "", id |-> "", class |-> << >>, style |-> << >>,
           role |-> "", aria_hidden |-> ""]

\* Variant: the two branches of the final `if` are exchanged.
View_Swapped(b, c, v) ==
  IF ~v
    THEN [nodes |-> 1,
          node |-> [tag |-> "div", id |-> IF b = "dioxus" THEN "skeleton-rs" ELSE "",
                    class |-> ClassNames(c), style |-> Style(b, c),
                    role |-> "presentation", aria_hidden |-> "true"],
          children |-> << >>]
    ELSE [nodes |-> 0, node |-> NoNode, children |-> c.children]

\* The component's return value: the placeholder <div>, or the children.
\* The Dioxus div carries id "skeleton-rs"; the Yew div is bound to node_ref.
View(b, c, v) ==
  IF Render(v) = "placeholder"
    THEN [nodes |-> 1,
          node |-> [tag |-> "div", id |-> IF b = "dioxus" THEN "skeleton-rs" ELSE "",
                    class |-> ClassNames(c), style |-> Style(b, c),
                    role |-> "presentation", aria_hidden |-> "true"],
          children |-> << >>]
    ELSE [nodes |-> 0, node |-> NoNode, children |-> c.children]

\* Variant: the style is built in the placeholder branch only.
RenderPass_StyleWhenShown(b, c, v) ==
  [style |-> IF v THEN Style(b, c) ELSE << >>, out |-> View(b, c, v)]

\* One run of the component function after its hooks: `style` and
\* `class_names` are built from the props, then `visible` picks the output.
RenderPass(b, c, v) == [style |-> Style(b, c), out |-> View(b, c, v)]

\* The props a binding has: the Yew SkeletonProps has no `direction`.
PropNames(b) == IF b = "yew" THEN DOMAIN CfgValues \ {"direction"} ELSE DOMAIN CfgValues

----------------------------------------------------------------------------
(* The injector effect and the document.                                   *)

DocEnvs == {"ok", "no_head", "no_window"}

\* The @keyframes skeleton-rs-wave rule written.  Yew: one fixed rule.
\* Dioxus: chosen by the instance's direction, CustomAngle like LeftToRight.
WaveKeyframes(b, direction) ==
  IF b = "yew" THEN "x: -200% to 200%, 2 steps"
  ELSE CASE direction.kind \in {"LeftToRight", "CustomAngle"} -> "x: 200% to -200%, 5 steps"
         [] direction.kind = "RightToLeft" -> "x: -200% to 200%, 5 steps"
         [] direction.kind = "TopToBottom" -> "y: -200% to 200%, 5 steps"
         [] direction.kind = "BottomToTop" -> "y: 200% to -200%, 5 steps"

\* The inner html of the style element an instance writes.
Css(b, direction) ==
  [pulse  |-> IF b = "yew" THEN "opacity 1, 0.4, 1" ELSE "opacity 1, 0.7, 0.4, 0.7, 1",
   wave   |-> WaveKeyframes(b, direction),
   hover  |-> "filter: brightness(0.95)",
   focus  |-> "outline: 2px solid #999",
   active |-> "transform: scale(0.98)"]

\* Dioxus unwraps window() and document(); Yew goes through Option.
InjectorPanics(b, env) == b = "dioxus" /\ env = "no_window"

\* Variant: the presence test is dropped.
InjectBlocks_NoPresenceTest(b, direction, env, blocks) ==
  IF env = "no_window" THEN blocks
  ELSE IF env = "no_head" THEN blocks
  ELSE Append(blocks, Css(b, direction))

\* Variant: a block that is present is rewritten by the caller.
InjectBlocks_Rewrites(b, direction, env, blocks) ==
  IF env = "no_window" THEN blocks
  ELSE IF blocks # << >> THEN <<Css(b, direction)>>
  ELSE IF env = "no_head" THEN blocks
  ELSE Append(blocks, Css(b, direction))

\* The elements with id "skeleton-rs-style" in the document after the
\* injector ran: nothing without a window; nothing when
\* get_element_by_id finds one; else the element is created, and appended
\* if document.head() is Some.
InjectBlocks(b, direction, env, blocks) ==
  IF env = "no_window" THEN blocks
  ELSE IF blocks # << >> THEN blocks
  ELSE IF env = "no_head" THEN blocks
  ELSE Append(blocks, Css(b, direction))

----------------------------------------------------------------------------
TimerCount == BagCardinality(timers)

mounted == pc # "unmounted"

\* The document, the instances around and the render pass are left out of a
\* specification that does not follow them.
DocIdle ==
  /\ doc_env = "ok" /\ style_blocks = << >> /\ mounts = 0 /\ live = << >>
  /\ first_css = << >> /\ appended = 0

ViewIdle ==
  /\ cfg = DefaultCfg /\ out = View("yew", DefaultCfg, TRUE) /\ edits = 0
  /\ style = << >> /\ renders = << >>

GroupIdle == insts = << >> /\ watch = {} /\ twin = << >>

\* The lifecycle's own variables, likewise.
LifeIdle ==
  /\ props = [show |-> FALSE, delay_ms |-> 0, animate_on_visible |-> FALSE]
  /\ pc = "idle" /\ timers = EmptyBag /\ observers = 0 /\ now = 0
  /\ updated = FALSE /\ show_seen = FALSE
  /\ last = [op |-> "Init", was |-> TRUE]
  /\ io_supported = TRUE

lifeVars == <<props, pc, timers, observers, now, updated, show_seen, last, io_supported>>

Init ==
  /\ binding \in Bindings
  /\ props \in Props
  /\ visible = InitialVisible(props)
  /\ pc = "rendered"
  /\ timers = EmptyBag
  /\ observers = 0
  /\ now = 0
  /\ panicked = FALSE
  /\ updated = FALSE
  /\ show_seen = props.show
  /\ last = [op |-> "Init", was |-> InitialVisible(props)]
  /\ io_supported \in BOOLEAN
  /\ DocIdle
  /\ ViewIdle
  /\ GroupIdle

\* The effects queued by the first render: the show effect, then the
\* observer effect, which finds the node iff the first render drew it.
MountEffects ==
  /\ pc = "rendered"
  /\ visible' = ShowEffectVisible(props, visible)
  /\ timers' = ShowEffectTimers(props, timers, now)
  /\ observers' = IF ObserverCreated(ObserverAttaches(props, visible), io_supported)
                    THEN observers + 1 ELSE observers
  /\ panicked' = (panicked \/ ObserverUnwrapPanics(ObserverAttaches(props, visible), io_supported))
  /\ pc' = "idle"
  /\ last' = [op |-> "MountEffects", was |-> visible]
  /\ UNCHANGED <<binding, props, now, updated, show_seen>>
  /\ UNCHANGED <<io_supported, docVars, viewVars, groupVars>>

\* The host supplies props p: the component renders again with the current
\* `visible`, then the effects whose dependencies changed run, in order.
Update(p) ==
  /\ pc = "idle"
  /\ LET showRuns == ShowEffectReruns(binding, props, p)
         obsRuns  == ObserverEffectReruns(binding, props, p)
         attach   == obsRuns /\ ObserverAttaches(p, visible)
     IN /\ (showRuns /\ ShowEffectBranch(p) = "timer") => TimerCount < MaxTimers
        /\ ObserverCreated(attach, io_supported) => observers < MaxObservers
        /\ visible' = IF showRuns THEN ShowEffectVisible(p, visible) ELSE visible
        /\ timers' = IF showRuns THEN ShowEffectTimers(p, timers, now) ELSE timers
        /\ observers' = IF ObserverCreated(attach, io_supported)
                          THEN observers + 1 ELSE observers
        /\ panicked' = (panicked \/ ObserverUnwrapPanics(attach, io_supported))
  /\ props' = p
  /\ updated' = TRUE
  /\ show_seen' = (show_seen \/ p.show)
  /\ last' = [op |-> "Update", was |-> visible]
  /\ UNCHANGED <<binding, pc, now>>
  /\ UNCHANGED <<io_supported, docVars, viewVars, groupVars>>

\* Time passes.
Tick ==
  /\ pc # "rendered"
  /\ \E t \in Instants : t > now /\ now' = t
  /\ last' = [op |-> "Tick", was |-> visible]
  /\ UNCHANGED <<binding, props, visible, pc, timers, observers, panicked, updated, show_seen>>
  /\ UNCHANGED <<io_supported, docVars, viewVars, groupVars>>

\* The browser runs the closure of a Timeout that is due.
TimerFire(d) ==
  /\ pc # "rendered"
  /\ BagIn(d, timers)
  /\ d <= now
  /\ timers' = timers (-) SetToBag({d})
  /\ IF mounted
       THEN /\ visible' = TimeoutCallback(visible)
            /\ UNCHANGED panicked
       ELSE /\ visible' = DeadWriteVisible(binding, visible, TimeoutCallback(visible))
            /\ panicked' = (panicked \/ DeadWritePanics(binding))
  /\ last' = [op |-> "TimerFire", was |-> visible]
  /\ UNCHANGED <<binding, props, pc, observers, now, updated, show_seen>>
  /\ UNCHANGED <<io_supported, docVars, viewVars, groupVars>>

\* The browser delivers one entry to an observer's closure.
Intersect(is_intersecting) ==
  /\ pc # "rendered"
  /\ observers > 0
  /\ IF mounted
       THEN /\ visible' = IntersectionCallback(visible, is_intersecting)
            /\ UNCHANGED panicked
       ELSE /\ visible' = DeadWriteVisible(binding, visible,
                                           IntersectionCallback(visible, is_intersecting))
            /\ panicked' = (panicked \/ (is_intersecting /\ DeadWritePanics(binding)))
  /\ last' = [op |-> "Intersect", was |-> visible]
  /\ UNCHANGED <<binding, props, pc, timers, observers, now, updated, show_seen>>
  /\ UNCHANGED <<io_supported, docVars, viewVars, groupVars>>

\* The host removes the instance; the effects' destructors run.
Unmount ==
  /\ pc = "idle"
  /\ pc' = "unmounted"
  /\ timers' = CleanupTimers(timers)
  /\ observers' = CleanupObservers(observers)
  /\ last' = [op |-> "Unmount", was |-> visible]
  /\ UNCHANGED <<binding, props, visible, now, panicked, updated, show_seen>>
  /\ UNCHANGED <<io_supported, docVars, viewVars, groupVars>>

Next ==
  \/ MountEffects
  \/ \E p \in Props : Update(p)
  \/ Tick
  \/ \E d \in Deadlines : TimerFire(d)
  \/ \E b \in BOOLEAN : Intersect(b)
  \/ Unmount

Spec == Init /\ [][Next]_vars

\* The event loop runs the queued effects, the clock advances, and a timeout
\* that is due is eventually run.
FairSpec ==
  /\ Spec
  /\ WF_vars(MountEffects)
  /\ WF_vars(Tick)
  /\ WF_vars(\E d \in Deadlines : TimerFire(d))

----------------------------------------------------------------------------
(* The document under instances of either binding mounting and unmounting. *)

\* Instances that mount in the document's life.
MaxMounts == 2

DocInit ==
  /\ doc_env \in DocEnvs
  /\ style_blocks = << >> /\ mounts = 0 /\ live = << >>
  /\ first_css = << >> /\ appended = 0
  /\ panicked = FALSE
  /\ binding = "yew" /\ visible = TRUE
  /\ LifeIdle
  /\ ViewIdle
  /\ GroupIdle

\* An instance of binding b with direction d mounts: its injector effect
\* (use_effect_with((), ..) / use_effect) runs once.
MountInstance(b, d) ==
  /\ mounts < MaxMounts
  /\ mounts' = mounts + 1
  /\ live' = Append(live, [binding |-> b, direction |-> d])
  /\ style_blocks' = InjectBlocks(b, d, doc_env, style_blocks)
  /\ appended' = appended + (Len(style_blocks') - Len(style_blocks))
  /\ first_css' = IF mounts = 0 THEN <<Css(b, d)>> ELSE first_css
  /\ panicked' = (panicked \/ InjectorPanics(b, doc_env))
  /\ UNCHANGED <<doc_env, binding, visible, lifeVars, viewVars, groupVars>>

\* The host gives instance i another direction: the component renders again.
\* The injector effect does not run again (Yew: dependency (); Dioxus: no
\* signal read).
RedirectInstance(i, d) ==
  /\ i \in 1 .. Len(live)
  /\ live[i].direction # d
  /\ live' = [live EXCEPT ![i].direction = d]
  /\ UNCHANGED <<doc_env, style_blocks, mounts, first_css, appended, panicked>>
  /\ UNCHANGED <<binding, visible, lifeVars, viewVars, groupVars>>

\* Instance i unmounts: the injector effect has no destructor.
UnmountInstance(i) ==
  /\ i \in 1 .. Len(live)
  /\ live' = [j \in 1 .. Len(live) - 1 |-> IF j < i THEN live[j] ELSE live[j + 1]]
  /\ UNCHANGED <<doc_env, style_blocks, mounts, first_css, appended, panicked>>
  /\ UNCHANGED <<binding, visible, lifeVars, viewVars, groupVars>>

DocNext ==
  \/ \E b \in Bindings : \E d \in Directions : MountInstance(b, d)
  \/ \E i \in 1 .. MaxMounts : \E d \in Directions : RedirectInstance(i, d)
  \/ \E i \in 1 .. MaxMounts : UnmountInstance(i)

DocSpec == DocInit /\ [][DocNext]_vars

----------------------------------------------------------------------------
(* The render pass under changes of the props and of `visible`.            *)

\* Props changed from their defaults.
MaxEdits == 2

\* What a render read and built.
RenderRecord(c, v, ts, blocks, st) ==
  [cfg |-> c, visible |-> v, timers |-> ts, style_blocks |-> blocks, style |-> st]

\* The first render of an instance in an empty document; its show effect
\* hides the placeholder or leaves a Timeout pending.
ViewInit ==
  /\ binding \in Bindings
  /\ props \in {p \in Props : ~p.animate_on_visible /\ p.delay_ms = DelayMs}
  /\ visible = InitialVisible(props)
  /\ cfg = DefaultCfg
  /\ edits = 0
  /\ out = RenderPass(binding, cfg, visible).out
  /\ style = RenderPass(binding, cfg, visible).style
  /\ renders = <<RenderRecord(cfg, visible, EmptyBag, << >>, style)>>
  /\ pc = "rendered" /\ timers = EmptyBag /\ observers = 0 /\ now = 0
  /\ updated = FALSE /\ show_seen = props.show
  /\ last = [op |-> "Init", was |-> visible]
  /\ io_supported = TRUE
  /\ panicked = FALSE
  /\ DocIdle
  /\ GroupIdle

\* The render that follows a change of the props or of `visible`.
Rerender(c, v, ts, blocks) ==
  /\ out' = RenderPass(binding, c, v).out
  /\ style' = RenderPass(binding, c, v).style
  /\ renders' = <<RenderRecord(c, v, ts, blocks, style')>>
                \o (IF c = cfg THEN <<renders[1]>> ELSE << >>)

\* The effects the first render queued: the show effect and the injector.
\* The component renders again if the show effect changed `visible`.
ViewEffects ==
  /\ pc = "rendered"
  /\ pc' = "idle"
  /\ visible' = ShowEffectVisible(props, visible)
  /\ timers' = ShowEffectTimers(props, timers, now)
  /\ style_blocks' = InjectBlocks(binding, cfg.direction, doc_env, style_blocks)
  /\ appended' = appended + (Len(style_blocks') - Len(style_blocks))
  /\ IF visible' # visible
       THEN Rerender(cfg, visible', timers', style_blocks')
       ELSE UNCHANGED <<out, style, renders>>
  /\ UNCHANGED <<binding, props, observers, now, panicked, updated, show_seen, last,
                 io_supported, cfg, edits, doc_env, mounts, live, first_css, groupVars>>

\* The host sets prop f to x; the component renders again.
SetProp(f, x) ==
  /\ pc = "idle"
  /\ edits < MaxEdits
  /\ f \in PropNames(binding)
  /\ cfg[f] # x
  /\ cfg' = [cfg EXCEPT ![f] = x]
  /\ edits' = edits + 1
  /\ Rerender(cfg', visible, timers, style_blocks)
  /\ UNCHANGED <<binding, visible, panicked, lifeVars, docVars, groupVars>>

\* `visible` is written (by the show effect, a timeout or an observer); the
\* component renders again.
SetVisible(v) ==
  /\ pc = "idle"
  /\ visible # v
  /\ visible' = v
  /\ Rerender(cfg, v, timers, style_blocks)
  /\ UNCHANGED <<binding, cfg, edits, panicked, lifeVars, docVars, groupVars>>

ViewNext ==
  \/ ViewEffects
  \/ \E f \in DOMAIN CfgValues : \E x \in CfgValues[f] : SetProp(f, x)
  \/ \E v \in BOOLEAN : SetVisible(v)

ViewSpec == ViewInit /\ [][ViewNext]_vars

----------------------------------------------------------------------------
(* Several instances of one binding on one page, in document order.  A     *)
(* placeholder node is named by the instance that draws it.                *)

\* Instances on the page.
MaxInstances == 2

Instances == 1 .. MaxInstances

\* The instances are given no delay: no Timeout is involved.
PageProps == {p \in Props : p.delay_ms = 0}

Unmounted == [mounted |-> FALSE, visible |-> FALSE,
              props |-> [show |-> FALSE, delay_ms |-> 0, animate_on_visible |-> FALSE]]

\* The instances whose placeholder <div> is in the document.
Drawn(is) == {j \in DOMAIN is : is[j].mounted /\ is[j].visible}

\* The element the observer effect of instance i finds, as a set: Yew casts
\* its own NodeRef; Dioxus asks the document for id "skeleton-rs", the id
\* of every instance's <div>, and gets the first one in document order.
ObservedNode(b, i, drawn) ==
  IF b = "yew" THEN drawn \cap {i}
  ELSE {t \in drawn : \A u \in drawn : t <= u}

\* The observers after the observer effect of instance i ran with props p.
Observing(b, i, p, drawn, ws) ==
  ws \cup {[owner |-> i, target |-> t, own_node |-> i \in drawn] :
             t \in {u \in ObservedNode(b, i, drawn) :
                      ObserverAttaches(p, ObservedNode(b, i, drawn) # {})}}

PageInit ==
  /\ binding \in Bindings
  /\ insts = [i \in Instances |-> Unmounted]
  /\ watch = {}
  /\ twin = << >>
  /\ visible = TRUE /\ panicked = FALSE
  /\ LifeIdle
  /\ DocIdle
  /\ ViewIdle

\* Instance i mounts with props p: first render, then its effects, which
\* see the document as the first render left it.
PageMount(i, p) ==
  /\ ~insts[i].mounted
  /\ LET first == [insts EXCEPT ![i] = [mounted |-> TRUE, props |-> p,
                                        visible |-> InitialVisible(p)]]
     IN /\ insts' = [first EXCEPT ![i].visible = ShowEffectVisible(p, InitialVisible(p))]
        /\ watch' = Observing(binding, i, p, Drawn(first), watch)
  /\ UNCHANGED <<binding, visible, panicked, twin, lifeVars, docVars, viewVars>>

\* The host gives instance i the props p: render, then the effects whose
\* dependencies changed.
PageUpdate(i, p) ==
  /\ insts[i].mounted
  /\ insts[i].props # p
  /\ LET old == insts[i].props
         v   == insts[i].visible
     IN /\ insts' = [insts EXCEPT
                       ![i].props = p,
                       ![i].visible = IF ShowEffectReruns(binding, old, p)
                                        THEN ShowEffectVisible(p, v) ELSE v]
        /\ watch' = IF ObserverEffectReruns(binding, old, p)
                      THEN Observing(binding, i, p, Drawn(insts), watch)
                      ELSE watch
  /\ UNCHANGED <<binding, visible, panicked, twin, lifeVars, docVars, viewVars>>

\* The browser delivers to observer w an entry for the node it observes,
\* a node that is in the document.
PageIntersect(w, is_intersecting) ==
  /\ w \in watch
  /\ w.target \in Drawn(insts)
  /\ insts' = [insts EXCEPT ![w.owner].visible =
                  IntersectionCallback(insts[w.owner].visible, is_intersecting)]
  /\ UNCHANGED <<binding, visible, panicked, watch, twin, lifeVars, docVars, viewVars>>

PageNext ==
  \/ \E i \in Instances : \E p \in PageProps : PageMount(i, p)
  \/ \E i \in Instances : \E p \in PageProps : PageUpdate(i, p)
  \/ \E w \in [owner : Instances, target : Instances, own_node : BOOLEAN] :
       \E b \in BOOLEAN : PageIntersect(w, b)

PageSpec == PageInit /\ [][PageNext]_vars

----------------------------------------------------------------------------
(* A Yew instance and a Dioxus instance side by side, each on its own page, *)
(* given the same props at the same times and the same clock.              *)

\* The props of the pair: no observer is involved.
TwinProps == {p \in Props : ~p.animate_on_visible}

\* The style props of the pair, none with the Wave animation.
TwinCfgs ==
  {[DefaultCfg EXCEPT !.animation = a, !.infer_size = s, !.animate_on_hover = h] :
     a \in Animations \ {"Wave"}, s \in BOOLEAN, h \in BOOLEAN}

TwinInit ==
  /\ props \in TwinProps
  /\ cfg \in TwinCfgs
  /\ twin = [b \in Bindings |-> [visible |-> InitialVisible(props), timers |-> EmptyBag]]
  /\ pc = "rendered" /\ now = 0
  /\ timers = EmptyBag /\ observers = 0
  /\ updated = FALSE /\ show_seen = props.show
  /\ last = [op |-> "Init", was |-> TRUE]
  /\ io_supported = TRUE
  /\ binding = "yew" /\ visible = TRUE /\ panicked = FALSE
  /\ out = View("yew", DefaultCfg, TRUE) /\ edits = 0
  /\ style = << >> /\ renders = << >>
  /\ insts = << >> /\ watch = {}
  /\ DocIdle

\* The show effect of each instance after the first render.
TwinEffects ==
  /\ pc = "rendered"
  /\ pc' = "idle"
  /\ twin' = [b \in Bindings |->
                [visible |-> ShowEffectVisible(props, twin[b].visible),
                 timers  |-> ShowEffectTimers(props, twin[b].timers, now)]]
  /\ UNCHANGED <<binding, props, visible, timers, observers, now, panicked, updated,
                 show_seen, last, io_supported, docVars, viewVars, insts, watch>>

\* Both hosts supply the props p.
TwinUpdate(p) ==
  /\ pc = "idle"
  /\ p \in TwinProps
  /\ p # props
  /\ \A b \in Bindings : BagCardinality(twin[b].timers) < MaxTimers
  /\ twin' = [b \in Bindings |->
                IF ShowEffectReruns(b, props, p)
                  THEN [visible |-> ShowEffectVisible(p, twin[b].visible),
                        timers  |-> ShowEffectTimers(p, twin[b].timers, now)]
                  ELSE twin[b]]
  /\ props' = p
  /\ updated' = TRUE
  /\ show_seen' = (show_seen \/ p.show)
  /\ UNCHANGED <<binding, visible, pc, timers, observers, now, panicked,
                 last, io_supported, docVars, viewVars, insts, watch>>

\* Time passes on both pages.
TwinTick ==
  /\ pc = "idle"
  /\ \E t \in Instants : t > now /\ now' = t
  /\ UNCHANGED <<binding, props, visible, pc, timers, observers, panicked, updated,
                 show_seen, last, io_supported, docVars, viewVars, groupVars>>

\* The Timeouts due at d run, on each page that has one.
TwinTimerFire(d) ==
  /\ pc = "idle"
  /\ d <= now
  /\ \E b \in Bindings : BagIn(d, twin[b].timers)
  /\ twin' = [b \in Bindings |->
                IF BagIn(d, twin[b].timers)
                  THEN [visible |-> TimeoutCallback(twin[b].visible),
                        timers  |-> twin[b].timers (-) SetToBag({d})]
                  ELSE twin[b]]
  /\ UNCHANGED <<binding, props, visible, pc, timers, observers, now, panicked, updated,
                 show_seen, last, io_supported, docVars, viewVars, insts, watch>>

TwinNext ==
  \/ TwinEffects
  \/ \E p \in Props : TwinUpdate(p)
  \/ TwinTick
  \/ \E d \in Deadlines : TwinTimerFire(d)

TwinSpec == TwinInit /\ [][TwinNext]_vars

TypeOK ==
  /\ binding \in Bindings
  /\ props \in Props
  /\ visible \in BOOLEAN
  /\ pc \in {"rendered", "idle", "unmounted"}
  /\ IsABag(timers)
  /\ observers \in 0 .. MaxObservers
  /\ now \in Instants
  /\ panicked \in BOOLEAN
  /\ updated \in BOOLEAN
  /\ show_seen \in BOOLEAN
  /\ last.was \in BOOLEAN
  /\ io_supported \in BOOLEAN

----------------------------------------------------------------------------
(* Claims.                                                                 *)

AtMount == ~updated /\ last.op \in {"Init", "MountEffects"}

C2_HiddenUntilTimerFires ==
  (/\ ~updated /\ mounted
   /\ ~props.show /\ props.delay_ms > 0
   /\ (pc = "rendered" \/ BagIn(props.delay_ms, timers)))
  => ~visible

\* C3: an update that makes show true forces the state to Hidden, and a
\* timer scheduled while show was false that fires while show is true is a
\* no-op on the state.
C3_ShowTrueHidesAndCancels ==
  [][ mounted' =>
        /\ (last'.op = "Update" /\ ~props.show /\ props'.show) => ~visible'
        /\ (last'.op = "TimerFire" /\ props.show) => visible' = visible ]_vars

\* C4: once the instance is unmounted, a timer that was pending and fires
\* later neither changes any state of the instance nor throws.
C4_TimerAfterUnmountIsInert ==
  [][ (pc = "unmounted" /\ last'.op = "TimerFire")
        => (visible' = visible /\ panicked' = panicked) ]_vars

\* C5: once the instance is unmounted, an intersection entry delivered to
\* its observer does not change the instance's visibility state (and does
\* not throw).
C5_IntersectionAfterUnmountIsInert ==
  [][ (pc = "unmounted" /\ last'.op = "Intersect")
        => (visible' = visible /\ panicked' = panicked) ]_vars

\* C6: mounted with show = false and delay_ms > 0, the delay timer
\* eventually fires and leaves the state Shown, unless an update sets show
\* to true or the instance is unmounted first.
C6_DelayEventuallyShows ==
  [](  (pc = "rendered" /\ ~props.show /\ props.delay_ms > 0)
       => <>(\/ (last.op = "TimerFire" /\ visible)
             \/ show_seen
             \/ ~mounted) )

C6_Witness ==
  /\ mounted /\ ~show_seen /\ ~updated
  /\ props.delay_ms > 0
  /\ last.op = "TimerFire" /\ visible
  /\ now >= DelayMs

C9_ShowMeansPlaceholder ==
  pc = "rendered" => ((Render(visible) = "placeholder") <=> props.show)

\* C10: the only step that takes the state from Shown to Hidden is an update
\* whose props have show = true; no timer, intersection entry, clock tick,
\* unmount or other update does.
C10_OnlyShowUpdateHides ==
  [][ (visible /\ ~visible') => (last'.op = "Update" /\ props'.show) ]_vars

C10_Witness ==
  /\ last.op = "Update" /\ last.was
  /\ props.show
  /\ ~visible

\* C11: every intersection entry with isIntersecting = true delivered to a
\* mounted instance's observer leaves the state Shown, whether it was Hidden
\* or already Shown, and an entry with isIntersecting = false leaves the
\* state as it was.
C11_IntersectingShowsAndSticks ==
  [][ mounted =>
        /\ Intersect(TRUE) => visible'
        /\ Intersect(FALSE) => visible' = visible ]_vars

C11_Witness ==
  /\ mounted /\ observers > 0
  /\ last.op = "Intersect" /\ ~last.was
  /\ visible

\* C12: every update whose props have show = false and delay_ms = 0 leaves
\* the state Shown at once.
C12_NoDelayUpdateShows ==
  [][ (last'.op = "Update" /\ ~props'.show /\ props'.delay_ms = 0) => visible' ]_vars

\* C13: an update that changes delay_ms and nothing else runs the show
\* effect's decision again, with the new delay_ms.
C13_DelayChangeReevaluates ==
  [][ (/\ last'.op = "Update"
       /\ props'.show = props.show
       /\ props'.animate_on_visible = props.animate_on_visible
       /\ props'.delay_ms # props.delay_ms)
      => /\ visible' = ShowEffectVisible(props', visible)
         /\ timers' = ShowEffectTimers(props', timers, now) ]_vars

\* C14: after N >= 1 injector runs the document holds exactly one style
\* block with the reserved id, and a block was appended at most once.
C14_ExactlyOneBlock ==
  mounts >= 1 => (Len(style_blocks) = 1 /\ appended <= 1)

\* C14, amended: the document never holds more than one such block and one
\* is appended at most once; after N >= 1 injector runs it holds exactly
\* one if window, document and head are available, and none if not.
C14_OneBlockWhereHeadAvailable ==
  /\ Len(style_blocks) <= 1
  /\ appended <= 1
  /\ (mounts >= 1 /\ doc_env = "ok") => (Len(style_blocks) = 1 /\ appended = 1)
  /\ doc_env # "ok" => Len(style_blocks) = 0

C14_Witness ==
  /\ doc_env = "ok"
  /\ mounts >= 2 /\ Len(live) >= 2
  /\ live[1].binding # live[2].binding
  /\ Len(style_blocks) = 1

\* C15: once the style block is in the document no step removes or changes
\* it, and its contents are those the first instance to mount wrote.
C15_BlockNeverChanges ==
  /\ [](style_blocks # << >> => style_blocks = first_css)
  /\ [][style_blocks # << >> => style_blocks' = style_blocks]_vars

C15_Witness ==
  /\ Len(style_blocks) = 1
  /\ mounts >= 2 /\ Len(live) = 1
  /\ live[1].binding = "dioxus"
  /\ Css(live[1].binding, live[1].direction) # style_blocks[1]

\* C16: in a browser that cannot construct an IntersectionObserver a mounted
\* instance never panics and never has an observer.
C16_NoObserverDegradesGracefully ==
  (~io_supported /\ mounted) => (~panicked /\ observers = 0)

\* C17: where the window, the document or its head is unavailable the
\* injector adds no style block and does not panic.
C17_InjectorNoOpWithoutHead ==
  doc_env # "ok" => (style_blocks = << >> /\ ~panicked)

C19_RadiusFollowsVariant ==
  visible =>
    LET r == DeclValue(out.node.style, "border-radius")
    IN /\ cfg.variant \in {"Circular", "Avatar"} => r = Some("50%")
       /\ cfg.variant = "Rectangular" => r = Some("0")
       /\ cfg.variant = "Rounded" => r = Some("8px")
       /\ cfg.variant = "Button" => r = Some("6px")
       /\ cfg.variant \in {"Text", "Image"} => r = Some(cfg.border_radius)

C19_Witness ==
  /\ visible
  /\ cfg.variant = "Circular"
  /\ cfg.border_radius # DefaultCfg.border_radius
  /\ DeclValue(out.node.style, "border-radius") = Some("50%")

\* C20: the background-color declaration of the style is #e0e0e0 for Light,
\* #444444 for Dark and c, unchanged, for Custom(c).
C20_BackgroundFollowsTheme ==
  visible =>
    LET bg == DeclValue(out.node.style, "background-color")
    IN /\ cfg.theme.kind = "Light" => bg = Some("#e0e0e0")
       /\ cfg.theme.kind = "Dark" => bg = Some("#444444")
       /\ cfg.theme.kind = "Custom" => bg = Some(cfg.theme.color)

C20_Witness ==
  /\ visible
  /\ cfg.theme = [kind |-> "Custom", color |-> "#0099ff"]
  /\ DeclValue(out.node.style, "background-color") = Some("#0099ff")

PieceAfter(st, x) ==
  LET I == {i \in 1 .. Len(st) - 1 : st[i] = x}
  IN IF I = {} THEN None ELSE Some(st[(CHOOSE i \in I : \A j \in I : i <= j) + 1])

\* C22: with Wave the gradient angle of the style is 90 for LeftToRight, 270
\* for RightToLeft, 180 for TopToBottom, 0 for BottomToTop and d for
\* CustomAngle(d); with Pulse the animation declaration names the pulse
\* keyframes and there is no gradient; with None there is neither.
C22_WaveAngleFollowsDirection ==
  LET angle == PieceAfter(style, "linear-gradient(")
      anim  == DeclValue(style, "animation")
  IN /\ cfg.animation = "Wave" =>
          /\ cfg.direction.kind = "LeftToRight" => angle = Some("90")
          /\ cfg.direction.kind = "RightToLeft" => angle = Some("270")
          /\ cfg.direction.kind = "TopToBottom" => angle = Some("180")
          /\ cfg.direction.kind = "BottomToTop" => angle = Some("0")
          /\ cfg.direction.kind = "CustomAngle" => angle = Some(ToString(cfg.direction.deg))
          /\ anim = Some("skeleton-rs-wave 1.6s linear infinite")
     /\ cfg.animation = "Pulse" =>
          /\ anim = Some("skeleton-rs-pulse 1.5s ease-in-out infinite")
          /\ angle = None
     /\ cfg.animation = "None" => (anim = None /\ angle = None)

C22_Witness ==
  /\ binding = "dioxus"
  /\ cfg.animation = "Wave"
  /\ cfg.direction = [kind |-> "CustomAngle", deg |-> -45]
  /\ PieceAfter(style, "linear-gradient(") = Some("-45")

\* C23: the style string is the base, optional and animation declarations
\* followed by custom_style, unchanged, and by nothing else.
C23_CustomStyleLast ==
  LET rest == Style(binding, [cfg EXCEPT !.custom_style = ""])
  IN IF cfg.custom_style = ""
       THEN style = rest
       ELSE style = rest \o <<cfg.custom_style>>

C23_Witness ==
  /\ cfg.custom_style = "opacity: 0.5; border-radius: 1px;"
  /\ cfg.animation = "Wave"
  /\ style[Len(style)] = cfg.custom_style

\* C24: with infer_size the base box has no width, height or line-height
\* declaration; without it the three carry the configured values; either
\* way background-color, border-radius, display, position, overflow and
\* margin are declared.
C24_InferSizeOmitsBox ==
  /\ cfg.infer_size =>
       /\ DeclValue(style, "width") = None
       /\ DeclValue(style, "height") = None
       /\ DeclValue(style, "line-height") = None
  /\ ~cfg.infer_size =>
       /\ DeclValue(style, "width") = Some(cfg.width)
       /\ DeclValue(style, "height") = Some(cfg.height)
       /\ DeclValue(style, "line-height") = Some(cfg.line_height)
  /\ DeclValue(style, "background-color") = Some(BackgroundColor(cfg.theme))
  /\ DeclValue(style, "border-radius") = Some(EffectiveRadius(cfg.variant, cfg.border_radius))
  /\ DeclValue(style, "display") = Some(cfg.display)
  /\ DeclValue(style, "position") = Some(cfg.position)
  /\ DeclValue(style, "overflow") = Some(cfg.overflow)
  /\ DeclValue(style, "margin") = Some(cfg.margin)

C24_Witness ==
  /\ cfg.infer_size
  /\ cfg.max_width # None
  /\ DeclValue(style, "width") = None
  /\ DeclValue(style, "margin") = Some("")

\* The positions of the declarations of `name` in a style string.
DeclAt(st, name) == {i \in 1 .. Len(st) - 2 : st[i] = name /\ st[i + 1] = ": "}

\* The optional declarations, in the order they are listed.
OptionalNames == <<"font-size", "max-width", "min-width", "max-height", "min-height">>

OptionalOf(c) == <<c.font_size, c.max_width, c.min_width, c.max_height, c.min_height>>

\* C25: each of font-size, max-width, min-width, max-height and min-height
\* is declared, once and with the given value, iff the prop is Some; those
\* declared come in that order, after the base declarations and before the
\* animation declaration.
C25_OptionalsInOrder ==
  /\ \A k \in 1 .. 5 :
       /\ OptionalOf(cfg)[k] = None => DeclAt(style, OptionalNames[k]) = {}
       /\ OptionalOf(cfg)[k] # None =>
            /\ Cardinality(DeclAt(style, OptionalNames[k])) = 1
            /\ DeclValue(style, OptionalNames[k]) = OptionalOf(cfg)[k]
            /\ \A i \in DeclAt(style, OptionalNames[k]) :
                 /\ i > Len(BaseStyle(cfg))
                 /\ \A a \in DeclAt(style, "animation") \cup DeclAt(style, "background") : i < a
  /\ \A k, m \in 1 .. 5 :
       k < m => \A i \in DeclAt(style, OptionalNames[k]) :
                  \A j \in DeclAt(style, OptionalNames[m]) : i < j

C25_Witness ==
  /\ cfg.max_width # None /\ cfg.min_width # None
  /\ cfg.font_size = None
  /\ cfg.animation = "Pulse"
  /\ DeclAt(style, "max-width") # {} /\ DeclAt(style, "min-width") # {}

\* C26: the class list is skeleton-rs, then skeleton-hover, skeleton-focus
\* and skeleton-active, each iff animate_on_hover, animate_on_focus,
\* animate_on_active is set; a change of these props changes neither
\* `visible` nor the style.
C26_ClassListFollowsFlags ==
  /\ [](visible =>
         out.node.class =
           <<"skeleton-rs">>
           \o (IF cfg.animate_on_hover THEN <<" skeleton-hover">> ELSE << >>)
           \o (IF cfg.animate_on_focus THEN <<" skeleton-focus">> ELSE << >>)
           \o (IF cfg.animate_on_active THEN <<" skeleton-active">> ELSE << >>))
  /\ [][ (\E f \in {"animate_on_hover", "animate_on_focus", "animate_on_active"} :
            cfg' = [cfg EXCEPT ![f] = ~cfg[f]])
         => (visible' = visible /\ style' = style /\ timers' = timers) ]_vars

C26_Witness ==
  /\ visible
  /\ cfg.animate_on_hover /\ ~cfg.animate_on_focus /\ cfg.animate_on_active
  /\ out.node.class = <<"skeleton-rs", " skeleton-hover", " skeleton-active">>

\* C27: in every state of a mounted instance, whatever updates, timeout
\* callbacks and intersection entries came before and in whatever order, if
\* the props of the latest render have show = true then the state is Hidden.
C27_ShowImpliesHidden ==
  (mounted /\ props.show) => ~visible

\* C28: every observer of a page observes the placeholder node of the
\* instance whose closure it runs, and an intersection entry for the node
\* of one instance leaves the visibility state of every other instance as
\* it was.
C28_ObserversWatchOwnNode ==
  /\ [](\A w \in watch : w.target = w.owner)
  /\ [][ \A w \in watch : \A b \in BOOLEAN :
           PageIntersect(w, b) =>
             \A o \in Instances \ {w.target} : insts'[o].visible = insts[o].visible ]_vars

\* C29: an observer exists only for an instance that had animate_on_visible
\* set and its own placeholder node in the document when the effect ran;
\* for an instance whose props have animate_on_visible = false no
\* intersection entry changes the visibility state.
C29_ObserverOnlyWithNode ==
  /\ [](\A w \in watch : w.own_node)
  /\ [][ \A w \in watch : \A b \in BOOLEAN :
           (PageIntersect(w, b) /\ ~insts[w.owner].props.animate_on_visible)
             => insts'[w.owner].visible = insts[w.owner].visible ]_vars

\* C30: for style props without the Wave animation the Yew and the Dioxus
\* instance build the same style string and the same class list, and after
\* the same mount, updates and timeouts they hold the same `visible`.
C30_BindingsAgree ==
  cfg.animation # "Wave" =>
    /\ Style("yew", cfg) = Style("dioxus", cfg)
    /\ View("yew", cfg, TRUE).node.class = View("dioxus", cfg, TRUE).node.class
    /\ twin["yew"].visible = twin["dioxus"].visible

====
